---- MODULE Spec2Model ----
(***************************************************************************)
(* Model of the ro_ji_parana listing spider (page parsing, per-page        *)
(* aggregation, record emission) and of the gazette item pipelines         *)
(* (storage path computation, SQL sink).                                   *)
(*                                                                         *)
(* Text is modelled with TLA+ strings over ASCII.  The two non-ASCII       *)
(* letters the patterns mention are written with one reserved ASCII        *)
(* character each: "&" stands for U+00E1 (a acute) and "$" for U+00C1      *)
(* (A acute).                                                              *)
(***************************************************************************)
EXTENDS Integers, Sequences, FiniteSets, TLC

VARIABLES
    year,                            \* cb_kwargs["year"] of the page request
    end_date,                        \* spider.end_date (crawl bound)
    page,                            \* nodes of response.xpath(...) iterated so far
    pc,                              \* position of the parse callback
    current_gazettes_data_per_page,  \* GazettesDataPerPage of this callback
    gidx,                            \* position of the loop of _yield_gazettes
    emitted,                         \* Gazette items yielded so far
    calls,                           \* file_path calls made, with their results
    spider,                          \* attributes of info.spider
    media_input,                     \* item as handed to the files pipeline
    media_item,                      \* the same item, as the pipeline holds it
    media_pc,                        \* position of the files pipeline on the item
    media_requests,                  \* requests get_media_requests has yielded
    database_url,                    \* SQLDatabasePipeline.database_url
    files,                           \* item["files"] of the item in process_item
    sink_pc,                         \* position of process_item
    fidx,                            \* position of its loop over the files
    session,                         \* objects added to the session, uncommitted
    database,                        \* rows committed to the database
    attempted,                       \* files for which add + commit was run
    warnings,                        \* warnings logged by process_item
    tasks,                           \* the callbacks of the listing pages in progress
    stores                           \* the GazettesDataPerPage of each of them

parserVars == <<year, end_date, page, pc,
                current_gazettes_data_per_page, gidx, emitted>>

mediaVars == <<spider, media_input, media_item, media_pc, media_requests>>

pathVars == <<calls, mediaVars>>

sinkVars == <<database_url, files, sink_pc, fidx, session, database, attempted,
              warnings>>

crawlVars == <<tasks, stores>>

vars == <<parserVars, pathVars, sinkVars, crawlVars>>

\* Largest number of nodes on a listing page.
MaxEntries == 3

\* Largest length of file_urls, and of file_requests, of an item.
MaxRefs == 2

\* Largest number of file_path calls looked at together.
MaxCalls == 2

\* Largest number of files of an item.
MaxFiles == 3

-----------------------------------------------------------------------------
(* Strings *)

Char(s, i) == SubSeq(s, i, i)

UpperCaseLetters == "ABCDEFGHIJKLMNOPQRSTUVWXYZ$"
LowerCaseLetters == "abcdefghijklmnopqrstuvwxyz&"

\* Characters in code point order (str comparison compares code points).
CodePointOrder ==
    " \"-./0123456789:;=?ABCDEFGHIJKLMNOPQRSTUVWXYZ_abcdefghijklmnopqrstuvwxyz$&"

IndexIn(alphabet, c) ==
    IF \E i \in 1..Len(alphabet) : Char(alphabet, i) = c
    THEN CHOOSE i \in 1..Len(alphabet) : Char(alphabet, i) = c
    ELSE 0

\* str.lower() of one character, as a table
LowerCaseOf ==
    [c \in {Char(UpperCaseLetters, i) : i \in 1..Len(UpperCaseLetters)} |->
        Char(LowerCaseLetters, IndexIn(UpperCaseLetters, c))]

LowerChar(c) == IF c \in DOMAIN LowerCaseOf THEN LowerCaseOf[c] ELSE c

RECURSIVE Lower(_)
Lower(s) == IF s = "" THEN "" ELSE LowerChar(Char(s, 1)) \o Lower(Tail(s))

StartsWith(s, prefix) ==
    Len(s) >= Len(prefix) /\ SubSeq(s, 1, Len(prefix)) = prefix

\* str.endswith
EndsWith(s, suffix) ==
    Len(s) >= Len(suffix) /\ SubSeq(s, Len(s) - Len(suffix) + 1, Len(s)) = suffix

\* str.strip() (whitespace is the blank in this alphabet)
RECURSIVE Strip(_)
Strip(s) ==
    IF s = "" THEN ""
    ELSE IF Char(s, 1) = " " THEN Strip(Tail(s))
    ELSE IF Char(s, Len(s)) = " " THEN Strip(SubSeq(s, 1, Len(s) - 1))
    ELSE s

\* str.replace(old, new): every non-overlapping occurrence, left to right
RECURSIVE Replace(_, _, _)
Replace(s, old, new) ==
    IF s = "" THEN ""
    ELSE IF StartsWith(s, old)
         THEN new \o Replace(SubSeq(s, Len(old) + 1, Len(s)), old, new)
         ELSE Char(s, 1) \o Replace(Tail(s), old, new)

\* a < b for str (lexicographic by code point, a proper prefix is smaller)
RECURSIVE StrLess(_, _)
StrLess(a, b) ==
    IF b = "" THEN FALSE
    ELSE IF a = "" THEN TRUE
    ELSE IF Char(a, 1) = Char(b, 1) THEN StrLess(Tail(a), Tail(b))
    ELSE IndexIn(CodePointOrder, Char(a, 1)) < IndexIn(CodePointOrder, Char(b, 1))

\* int() of a digit string
RECURSIVE StrToInt(_)
StrToInt(s) ==
    IF s = "" THEN 0
    ELSE 10 * StrToInt(SubSeq(s, 1, Len(s) - 1))
         + (IndexIn("0123456789", Char(s, Len(s))) - 1)

-----------------------------------------------------------------------------
(* datetime.date *)

Date(y, m, d) == [year |-> y, month |-> m, day |-> d]

IsLeap(y) == (y % 4 = 0 /\ y % 100 # 0) \/ y % 400 = 0

DaysInMonth(y, m) ==
    IF m \in {4, 6, 9, 11} THEN 30
    ELSE IF m = 2 THEN (IF IsLeap(y) THEN 29 ELSE 28)
    ELSE 31

\* date(y, m, d) raises ValueError unless this holds
ValidDate(y, m, d) ==
    /\ y \in 1..9999
    /\ m \in 1..12
    /\ d \in 1..DaysInMonth(y, m)

DateLeq(a, b) ==
    \/ a.year < b.year
    \/ a.year = b.year /\ a.month < b.month
    \/ a.year = b.year /\ a.month = b.month /\ a.day <= b.day

-----------------------------------------------------------------------------
(* dict: insertion-ordered, a sequence of [key, value] entries *)

HasKey(d, k) == \E i \in 1..Len(d) : d[i].key = k

KeyIndex(d, k) == CHOOSE i \in 1..Len(d) : d[i].key = k

Get(d, k) == d[KeyIndex(d, k)].value

\* d[k] = v
Put(d, k, v) ==
    IF HasKey(d, k)
    THEN [d EXCEPT ![KeyIndex(d, k)] = [key |-> k, value |-> v]]
    ELSE Append(d, [key |-> k, value |-> v])

\* Mutant: d[k] = default, whether or not k is already a key
SetDefault_Overwrites(d, k, default) == Put(d, k, default)

\* d.setdefault(k, default): the dict afterwards
SetDefault(d, k, default) == IF HasKey(d, k) THEN d ELSE Put(d, k, default)

Keys(d) == [i \in 1..Len(d) |-> d[i].key]

\* sorted(keys) of distinct str keys
RECURSIVE InsertSorted(_, _)
InsertSorted(sortedKeys, k) ==
    IF sortedKeys = <<>> THEN <<k>>
    ELSE IF StrLess(k, Head(sortedKeys)) THEN <<k>> \o sortedKeys
    ELSE <<Head(sortedKeys)>> \o InsertSorted(Tail(sortedKeys), k)

\* Mutant: the keys are visited in insertion order
Sorted_InsertionOrder(keys) == keys

RECURSIVE SortedFrom(_, _)
SortedFrom(keys, acc) ==
    IF keys = <<>> THEN acc
    ELSE SortedFrom(Tail(keys), InsertSorted(acc, Head(keys)))

Sorted(keys) == SortedFrom(keys, <<>>)

-----------------------------------------------------------------------------
(* ro_ji_parana.py: module constants and spider attributes *)

\* (sum?ple?mento|extraordinária), re.IGNORECASE: the lower-cased words
IS_EXTRA_EDITION_PATTERN ==
    {"su" \o m \o "pl" \o e \o "mento" : m \in {"", "m"}, e \in {"", "e"}}
        \cup {"extraordin&ria"}

\* bool(pattern.search(s)) for a case-insensitive alternation of literal words
Search(words, s) ==
    LET lowered == Lower(s)
    IN  \E w \in words : \E i \in 1..(Len(s) - Len(w) + 1) :
            SubSeq(lowered, i, i + Len(w) - 1) = w

start_date == Date(2013, 6, 3)

POST_2013_SPLIT_FORMAT(y) ==
    "https://diariooficialjp.com.br/anop.php?ano=" \o ToString(y)

\* Values of spider.end_date.
EndDates == {Date(2014, 9, 30), Date(2014, 3, 10)}

\* start_requests: one listing page per year from start_date.year to end_date
RequestedYears(until) == start_date.year .. until.year

\* Known historical entry skipped by _validate_uniqueness
EXCEPTION_DATE == Date(2014, 8, 28)

-----------------------------------------------------------------------------
(* Listing page nodes.  A node is the result of                           *)
(* POST_2013_SPLIT_GAZETTE_TEXT_PATTERN.search on its text (<<>> for no   *)
(* match, else groups 1..5) and its href attribute.                       *)

Node(groups, href) == [match_ |-> groups, href |-> href]

Nodes == {
    Node(<<"1892", "", "2014", "08", "28">>, "pdf/2014-08-28.pdf"),
    Node(<<"1892", "", "2014", "08", "28">>, "pdf/2014-08-28"),
    Node(<<"1800", "", "2014", "03", "10">>, "http://domjp.com.br/pdf/2014-03-10.pdf"),
    Node(<<"1800", "", "2014", "03", "10">>, "pdf/2014-03-10-b.pdf"),
    Node(<<"1800", "Anexo", "2014", "03", "10">>, "pdf/2014-03-10-anexo.pdf"),
    Node(<<"1800", "SUPLEMENTO ", "2014", "03", "10">>, "pdf/2014-03-10-s.pdf"),
    Node(<<"1800", "", "2014", "03", "10">>, "pdf/2014-03-10-Suplemento.pdf"),
    Node(<<"1800", "Sumplmento", "2014", "03", "10">>, "pdf/2014-03-10-suplemento-2.pdf"),
    Node(<<"1801", "", "2014", "03", "10">>, "https://domjp.com.br/pdf/2014-03-10.pdf"),
    Node(<<>>, "pdf/index.pdf"),
    Node(<<"1586", "", "2013", "06", "03">>, "pdf/2013-06-03.pdf"),
    Node(<<"1950", "", "2014", "10", "01">>, "pdf/2014-10-01.pdf"),
    Node(<<"1801", "", "2014", "02", "30">>, "pdf/2014-02-30.pdf")
}

-----------------------------------------------------------------------------
(* parse_year_post_2013_split: the body of the loop over the nodes *)

\* response.urljoin(ref) for a reference that is absolute or a relative path
RECURSIVE UpToLast(_, _)
UpToLast(s, c) ==
    IF s = "" \/ Char(s, Len(s)) = c THEN s
    ELSE UpToLast(SubSeq(s, 1, Len(s) - 1), c)

RECURSIVE Before(_, _)
Before(s, c) ==
    IF s = "" \/ Char(s, 1) = c THEN ""
    ELSE Char(s, 1) \o Before(Tail(s), c)

UrlJoin(base, ref) ==
    IF StartsWith(ref, "http://") \/ StartsWith(ref, "https://") THEN ref
    ELSE UpToLast(Before(base, "?"), "/") \o ref

NodeEditionNumber(node) == node.match_[1]

NodeExtraText(node) == Strip(node.match_[2])

NodeYear(node) == StrToInt(node.match_[3])
NodeMonth(node) == StrToInt(node.match_[4])
NodeDay(node) == StrToInt(node.match_[5])

NodeDate(node) == Date(NodeYear(node), NodeMonth(node), NodeDay(node))

NodeUrl(node, y) ==
    Replace(UrlJoin(POST_2013_SPLIT_FORMAT(y), Strip(node.href)),
            "http://", "https://")

\* Mutant: both the text and the url must match
IsExtraEdition_Both(is_extra_edition_text, url) ==
    /\ Search(IS_EXTRA_EDITION_PATTERN, is_extra_edition_text)
    /\ Search(IS_EXTRA_EDITION_PATTERN, url)

IsExtraEdition(is_extra_edition_text, url) ==
    \/ Search(IS_EXTRA_EDITION_PATTERN, is_extra_edition_text)
    \/ Search(IS_EXTRA_EDITION_PATTERN, url)

\* Mutant: a node whose text does not match ends the loop with an exception
EntryOutcome_UnmatchedRaises(node, y, until) ==
    IF node.match_ = <<>> THEN "ValueError"
    ELSE IF ~ValidDate(NodeYear(node), NodeMonth(node), NodeDay(node))
         THEN "ValueError"
    ELSE IF NodeDate(node).year # y THEN "other_year"
    ELSE IF ~(DateLeq(start_date, NodeDate(node)) /\ DateLeq(NodeDate(node), until))
         THEN "out_of_bounds"
    ELSE "validate"

\* Mutant: the date is not compared with start_date and end_date
EntryOutcome_NoBoundsCheck(node, y, until) ==
    IF node.match_ = <<>> THEN "unmatched"
    ELSE IF ~ValidDate(NodeYear(node), NodeMonth(node), NodeDay(node))
         THEN "ValueError"
    ELSE IF NodeDate(node).year # y THEN "other_year"
    ELSE "validate"

\* Mutant: the year of the date is not compared with the queried year
EntryOutcome_NoYearCheck(node, y, until) ==
    IF node.match_ = <<>> THEN "unmatched"
    ELSE IF ~ValidDate(NodeYear(node), NodeMonth(node), NodeDay(node))
         THEN "ValueError"
    ELSE IF ~(DateLeq(start_date, NodeDate(node)) /\ DateLeq(NodeDate(node), until))
         THEN "out_of_bounds"
    ELSE "validate"

\* Which way one iteration of the loop goes for a node
EntryOutcome(node, y, until) ==
    IF node.match_ = <<>> THEN "unmatched"
    ELSE IF ~ValidDate(NodeYear(node), NodeMonth(node), NodeDay(node))
         THEN "ValueError"
    ELSE IF NodeDate(node).year # y THEN "other_year"
    ELSE IF ~(DateLeq(start_date, NodeDate(node)) /\ DateLeq(NodeDate(node), until))
         THEN "out_of_bounds"
    ELSE "validate"

\* Mutant: the key leaves is_extra_edition out
GazetteKey_WithoutExtra(gazette_date, edition_number, is_extra_edition) ==
    [gazette_date |-> gazette_date,
     edition_number |-> edition_number,
     is_extra_edition |-> FALSE]

GazetteKey(gazette_date, edition_number, is_extra_edition) ==
    [gazette_date |-> gazette_date,
     edition_number |-> edition_number,
     is_extra_edition |-> is_extra_edition]

\* Mutant: the table of known bad entries is empty
IsKnownBadEntry_Never(gazette_date, url) == FALSE

IsKnownBadEntry(gazette_date, url) ==
    gazette_date = EXCEPTION_DATE /\ ~EndsWith(url, ".pdf")

\* Mutant: the url set of a key holds the last url only
_validate_uniqueness_LastUrlWins(data, gazette_date, edition_number, is_extra_edition, is_extra_edition_text, url) ==
    IF IsKnownBadEntry(gazette_date, url) THEN data
    ELSE
    LET current_gazette_key ==
            GazetteKey(gazette_date, edition_number, is_extra_edition)
        withKey == SetDefault(data, current_gazette_key, <<>>)
    IN  Put(withKey, current_gazette_key,
            Put(Get(withKey, current_gazette_key), is_extra_edition_text, {url}))

\* Mutant: the keys are created before the known bad entry is skipped
_validate_uniqueness_KeysFirst(data, gazette_date, edition_number, is_extra_edition, is_extra_edition_text, url) ==
    LET current_gazette_key ==
            GazetteKey(gazette_date, edition_number, is_extra_edition)
        withKey == SetDefault(data, current_gazette_key, <<>>)
        withText == SetDefault(Get(withKey, current_gazette_key),
                               is_extra_edition_text, {})
        current_gazette_url_set == Get(withText, is_extra_edition_text)
    IN  IF IsKnownBadEntry(gazette_date, url) \/ url \in current_gazette_url_set
        THEN Put(withKey, current_gazette_key, withText)
        ELSE Put(withKey, current_gazette_key,
                 Put(withText, is_extra_edition_text,
                     current_gazette_url_set \cup {url}))

\* The GazettesDataPerPage after the call
_validate_uniqueness(data, gazette_date, edition_number, is_extra_edition, is_extra_edition_text, url) ==
    IF IsKnownBadEntry(gazette_date, url) THEN data
    ELSE
    LET current_gazette_key ==
            GazetteKey(gazette_date, edition_number, is_extra_edition)
        withKey == SetDefault(data, current_gazette_key, <<>>)
        withText == SetDefault(Get(withKey, current_gazette_key),
                               is_extra_edition_text, {})
        current_gazette_url_set == Get(withText, is_extra_edition_text)
    IN  IF url \in current_gazette_url_set
        THEN Put(withKey, current_gazette_key, withText)
        ELSE Put(withKey, current_gazette_key,
                 Put(withText, is_extra_edition_text,
                     current_gazette_url_set \cup {url}))

\* Lines 136-169 for a matched node: the arguments of _validate_uniqueness
EntryOf(node, y) ==
    [gazette_date |-> NodeDate(node),
     edition_number |-> NodeEditionNumber(node),
     is_extra_edition |-> IsExtraEdition(NodeExtraText(node), NodeUrl(node, y)),
     is_extra_edition_text |-> NodeExtraText(node),
     url |-> NodeUrl(node, y)]

\* EntryOutcome and EntryOf of every node, worked out once (f @@ <<>> is f,
\* held as an explicit table)
AllYears == UNION {RequestedYears(until) : until \in EndDates}

OutcomeTable ==
    [node \in Nodes, y \in AllYears, until \in EndDates |->
        EntryOutcome(node, y, until)] @@ <<>>

EntryTable ==
    [node \in {n \in Nodes : n.match_ # <<>>}, y \in AllYears |->
        EntryOf(node, y)] @@ <<>>

\* Lines 171-178 for a node that passed the checks
RegisterNode(data, node, y) ==
    LET entry == EntryTable[node, y]
    IN  _validate_uniqueness(
            data,
            entry.gazette_date,
            entry.edition_number,
            entry.is_extra_edition,
            entry.is_extra_edition_text,
            entry.url)

-----------------------------------------------------------------------------
(* _yield_gazettes: one iteration of the loop over the GazetteKeys *)

\* set.pop() of a set with one member
Pop(url_set) == CHOOSE url \in url_set : TRUE

\* Order in which the inner loop visits the is_extra_edition_text keys
VisitOrder(by_is_extra_edition_text) == Sorted(Keys(by_is_extra_edition_text))

\* Mutant: yield_gazette is never cleared
YieldGazetteFlag_NeverCleared(by_is_extra_edition_text) == TRUE

\* yield_gazette after the inner loop
YieldGazetteFlag(by_is_extra_edition_text) ==
    \A i \in 1..Len(by_is_extra_edition_text) :
        ~(Cardinality(by_is_extra_edition_text[i].value) > 1)

\* set.pop() raises KeyError on an empty set
PopRaises(by_is_extra_edition_text) ==
    \E i \in 1..Len(by_is_extra_edition_text) :
        by_is_extra_edition_text[i].value = {}

\* current_gazette_urls after the inner loop has visited keys
RECURSIVE CurrentGazetteUrls(_, _)
CurrentGazetteUrls(by_is_extra_edition_text, keys) ==
    IF keys = <<>> THEN <<>>
    ELSE LET url_set == Get(by_is_extra_edition_text, Head(keys))
         IN  IF Cardinality(url_set) > 1
             THEN CurrentGazetteUrls(by_is_extra_edition_text, Tail(keys))
             ELSE <<Pop(url_set)>>
                      \o CurrentGazetteUrls(by_is_extra_edition_text, Tail(keys))

\* The inner dict after the pops of the inner loop
AfterPops(by_is_extra_edition_text) ==
    [i \in 1..Len(by_is_extra_edition_text) |->
        IF Cardinality(by_is_extra_edition_text[i].value) > 1
        THEN by_is_extra_edition_text[i]
        ELSE [key |-> by_is_extra_edition_text[i].key, value |-> {}]]

Gazette(key, file_urls) ==
    [edition_number |-> key.edition_number,
     date |-> key.gazette_date,
     is_extra_edition |-> key.is_extra_edition,
     file_urls |-> file_urls,
     power |-> "executive"]

\* What one iteration of the outer loop yields: <<>> or one Gazette
Yielded(key, by_is_extra_edition_text) ==
    IF YieldGazetteFlag(by_is_extra_edition_text)
    THEN <<Gazette(key, CurrentGazetteUrls(by_is_extra_edition_text,
                                           VisitOrder(by_is_extra_edition_text)))>>
    ELSE <<>>

-----------------------------------------------------------------------------
(* The parse callback as a state machine *)

\* The parse callback and the pipelines at rest
ParserIdle ==
    /\ end_date = start_date
    /\ year = start_date.year
    /\ page = <<>>
    /\ pc = "idle"
    /\ current_gazettes_data_per_page = <<>>
    /\ gidx = 1
    /\ emitted = <<>>

MediaIdle ==
    /\ spider = <<>>
    /\ media_input = <<>>
    /\ media_item = <<>>
    /\ media_pc = "idle"
    /\ media_requests = <<>>

PathIdle ==
    /\ calls = {}
    /\ MediaIdle

CrawlIdle ==
    /\ tasks = <<>>
    /\ stores = <<>>

SinkIdle ==
    /\ database_url = "None"
    /\ files = <<>>
    /\ sink_pc = "idle"
    /\ fidx = 1
    /\ session = <<>>
    /\ database = <<>>
    /\ attempted = <<>>
    /\ warnings = <<>>

Init ==
    /\ end_date \in EndDates
    /\ year \in RequestedYears(end_date)
    /\ page = <<>>
    /\ pc = "scan"
    /\ current_gazettes_data_per_page = <<>>
    /\ gidx = 1
    /\ emitted = <<>>
    /\ PathIdle
    /\ SinkIdle
    /\ CrawlIdle

\* The for loop takes the next node of the page, and the iteration goes the
\* way of outcome
NextNode(node, outcome) ==
    /\ pc = "scan"
    /\ Len(page) < MaxEntries
    /\ OutcomeTable[node, year, end_date] = outcome
    /\ page' = Append(page, node)
    /\ UNCHANGED <<year, end_date, gidx, emitted, pathVars, sinkVars, crawlVars>>

\* lines 131-134: no match, continue
SkipUnmatched ==
    \E node \in Nodes :
        /\ NextNode(node, "unmatched")
        /\ UNCHANGED <<pc, current_gazettes_data_per_page>>

\* line 142: date(...) raises ValueError, the generator ends without a yield
RaiseValueError ==
    \E node \in Nodes :
        /\ NextNode(node, "ValueError")
        /\ pc' = "ValueError"
        /\ UNCHANGED current_gazettes_data_per_page

\* lines 143-148: date of another year, continue
SkipOtherYear ==
    \E node \in Nodes :
        /\ NextNode(node, "other_year")
        /\ UNCHANGED <<pc, current_gazettes_data_per_page>>

\* lines 150-151: date outside [start_date, end_date], continue
SkipOutOfBounds ==
    \E node \in Nodes :
        /\ NextNode(node, "out_of_bounds")
        /\ UNCHANGED <<pc, current_gazettes_data_per_page>>

\* Mutant: the record of the entry is yielded as soon as it is registered
ValidateUniqueness_EmitsAtOnce ==
    \E node \in Nodes :
        /\ pc = "scan"
        /\ Len(page) < MaxEntries
        /\ OutcomeTable[node, year, end_date] = "validate"
        /\ page' = Append(page, node)
        /\ current_gazettes_data_per_page' =
               RegisterNode(current_gazettes_data_per_page, node, year)
        /\ emitted' = Append(emitted,
               Gazette(EntryTable[node, year], <<EntryTable[node, year].url>>))
        /\ UNCHANGED <<year, end_date, gidx, pc, pathVars, sinkVars, crawlVars>>

\* lines 153-178: url, is_extra_edition, _validate_uniqueness
ValidateUniqueness ==
    \E node \in Nodes :
        /\ NextNode(node, "validate")
        /\ current_gazettes_data_per_page' =
               RegisterNode(current_gazettes_data_per_page, node, year)
        /\ UNCHANGED pc

\* line 182: the page has no more nodes, _yield_gazettes starts
StartYieldGazettes ==
    /\ pc = "scan"
    /\ pc' = "yield_gazettes"
    /\ gidx' = 1
    /\ UNCHANGED <<year, end_date, page, emitted,
                   current_gazettes_data_per_page, pathVars, sinkVars, crawlVars>>

\* lines 228-259: one GazetteKey of the dict
YieldGazettesIteration ==
    /\ pc = "yield_gazettes"
    /\ gidx <= Len(current_gazettes_data_per_page)
    /\ LET key == current_gazettes_data_per_page[gidx].key
           by_is_extra_edition_text == current_gazettes_data_per_page[gidx].value
       IN  IF PopRaises(by_is_extra_edition_text)
           THEN /\ pc' = "KeyError"
                /\ UNCHANGED <<gidx, emitted, current_gazettes_data_per_page>>
           ELSE /\ pc' = pc
                /\ gidx' = gidx + 1
                /\ emitted' = emitted \o Yielded(key, by_is_extra_edition_text)
                /\ current_gazettes_data_per_page' =
                       [current_gazettes_data_per_page EXCEPT
                           ![gidx].value = AfterPops(by_is_extra_edition_text)]
    /\ UNCHANGED <<year, end_date, page, pathVars, sinkVars, crawlVars>>

\* the generator is exhausted
FinishPage ==
    /\ pc = "yield_gazettes"
    /\ gidx > Len(current_gazettes_data_per_page)
    /\ pc' = "done"
    /\ UNCHANGED <<year, end_date, page, gidx, emitted,
                   current_gazettes_data_per_page, pathVars, sinkVars, crawlVars>>

Next ==
    \/ SkipUnmatched
    \/ RaiseValueError
    \/ SkipOtherYear
    \/ SkipOutOfBounds
    \/ ValidateUniqueness
    \/ StartYieldGazettes
    \/ YieldGazettesIteration
    \/ FinishPage

Spec == Init /\ [][Next]_vars

-----------------------------------------------------------------------------
(* pipelines.py: QueridoDiarioFilesPipeline.file_path *)

SP_RIBEIRAO_PRETO == "3543402"

\* The request URLs and embedded file names of the model, with the
\* hexdigest hashlib.sha1 gives for each
Sha1HexDigest ==
    [bytes \in {"https://www.ribeiraopreto.sp.gov.br/pdf/dom.xhtml",
                "https://www.ribeiraopreto.sp.gov.br/pdf/dom-b.xhtml",
                "https://diariooficialjp.com.br/pdf/2023-01-10.pdf",
                "https://www.ribeiraopreto.sp.gov.br/download?id=7",
                "relatorio.pdf",
                "edital.pdf"} |->
        CASE bytes = "https://www.ribeiraopreto.sp.gov.br/pdf/dom.xhtml" ->
                 "672e3ef56845e5dbe8881e9ee42b031838cc4030"
          [] bytes = "https://www.ribeiraopreto.sp.gov.br/pdf/dom-b.xhtml" ->
                 "7330d15b93a074a7c9520bd6e1696d9aa13c351b"
          [] bytes = "https://diariooficialjp.com.br/pdf/2023-01-10.pdf" ->
                 "a41bca8ea6520668737fa70858a862272d794e61"
          [] bytes = "https://www.ribeiraopreto.sp.gov.br/download?id=7" ->
                 "1ef21670bb2678c747347274df764a5840d155c5"
          [] bytes = "relatorio.pdf" ->
                 "1debce944e4b72b72c0736bb3148e4b60259f511"
          [] bytes = "edital.pdf" ->
                 "8f15fe6f0626c6d483cbac7f89ff53f09d640ebf"]

\* Position of the last c in s, 0 if there is none
RECURSIVE LastIndexOf(_, _)
LastIndexOf(s, c) ==
    IF s = "" THEN 0
    ELSE IF Char(s, Len(s)) = c THEN Len(s)
    ELSE LastIndexOf(SubSeq(s, 1, Len(s) - 1), c)

\* Path(p).name
PathName(p) == SubSeq(p, LastIndexOf(p, "/") + 1, Len(p))

\* Path(p).suffix: from the last dot of the name, unless the name starts or
\* ends with it
PathSuffix(p) ==
    LET name == PathName(p)
        dot == LastIndexOf(name, ".")
    IN  IF dot > 1 /\ dot < Len(name) THEN SubSeq(name, dot, Len(name)) ELSE ""

\* Path(p).stem
PathStem(p) ==
    LET name == PathName(p)
    IN  SubSeq(name, 1, Len(name) - Len(PathSuffix(p)))

\* str(Path(a, b, c))
PathOf(a, b, c) == a \o "/" \o b \o "/" \o c

\* Extensions of mimetypes.types_map that the request URLs carry
KnownExtensions == {".pdf", ".xhtml"}

\* super().file_path: "full/" + sha1 of the request URL + the media extension
DefaultFilePath(request) ==
    LET media_ext == PathSuffix(request.url)
    IN  "full/" \o Sha1HexDigest[request.url]
            \o (IF media_ext \in KnownExtensions THEN media_ext ELSE "")

\* "%0<width>d" % n
RECURSIVE ZeroPadded(_, _)
ZeroPadded(n, width) ==
    IF Len(ToString(n)) >= width THEN ToString(n)
    ELSE "0" \o ZeroPadded(n, width - 1)

\* date.strftime("%Y-%m-%d")
Strftime(date) ==
    ZeroPadded(date.year, 4) \o "-" \o ZeroPadded(date.month, 2)
        \o "-" \o ZeroPadded(date.day, 2)

\* response.headers.get("Content-Disposition") is there and not empty
HasContentDisposition(response) ==
    /\ "Content-Disposition" \in DOMAIN response.headers
    /\ response.headers["Content-Disposition"] # ""

\* SP_RIBEIRAO_PRETO_PDF_FILENAME = filename="([^"]+)": where a match may
\* start in header, and the group 1 of the match that starts at i
FilenameQuoted == "filename=\""

MatchStarts(header) ==
    {i \in 1..(Len(header) - Len(FilenameQuoted)) :
        /\ SubSeq(header, i, i + Len(FilenameQuoted) - 1) = FilenameQuoted
        /\ Char(header, i + Len(FilenameQuoted)) # "\""
        /\ \E j \in (i + Len(FilenameQuoted) + 1)..Len(header) :
              Char(header, j) = "\""}

Group1(header, i) ==
    LET first == i + Len(FilenameQuoted)
        closing == CHOOSE j \in (first + 1)..Len(header) :
                       /\ Char(header, j) = "\""
                       /\ \A k \in first..(j - 1) : Char(header, k) # "\""
    IN  SubSeq(header, first, closing - 1)

\* SP_RIBEIRAO_PRETO_PDF_FILENAME.search(header) finds a match
FilenameSearch(header) == MatchStarts(header) # {}

\* group(1) of the leftmost match
FilenameGroup1(header) ==
    Group1(header, CHOOSE i \in MatchStarts(header) :
                       \A k \in MatchStarts(header) : i <= k)

\* Mutant: the digest is taken of the request URL
file_path_for_sp_ribeirao_preto_OfUrl(request, response, item) ==
    PathOf(item.territory_id, Strftime(item.date), Sha1HexDigest[request.url])

file_path_for_sp_ribeirao_preto(request, response, item) ==
    LET content_disposition == response.headers["Content-Disposition"]
        pdf_filename == FilenameGroup1(content_disposition)
        datestr == Strftime(item.date)
        filename == Sha1HexDigest[pdf_filename]
    IN  PathOf(item.territory_id, datestr, filename)

\* Mutant: the extension is kept for every territory
DefaultBranch_KeepsExtension(request, item) ==
    PathOf(item.territory_id, Strftime(item.date),
           PathName(DefaultFilePath(request)))

\* Lines 175-183: the default path under territory_id and date
DefaultBranch(request, item) ==
    LET filepath == DefaultFilePath(request)
        filename == IF item.territory_id = SP_RIBEIRAO_PRETO
                    THEN PathStem(filepath)
                    ELSE PathName(filepath)
    IN  PathOf(item.territory_id, Strftime(item.date), filename)

\* response is [present |-> FALSE] for response=None
file_path(request, response, item) ==
    IF /\ response.present
       /\ item.territory_id = SP_RIBEIRAO_PRETO
       /\ HasContentDisposition(response)
       /\ FilenameSearch(response.headers["Content-Disposition"])
    THEN file_path_for_sp_ribeirao_preto(request, response, item)
    ELSE DefaultBranch(request, item)

(* The arguments file_path is called with *)

Requests == {[url |-> url] : url \in
    {"https://www.ribeiraopreto.sp.gov.br/pdf/dom.xhtml",
     "https://www.ribeiraopreto.sp.gov.br/pdf/dom-b.xhtml",
     "https://diariooficialjp.com.br/pdf/2023-01-10.pdf",
     "https://www.ribeiraopreto.sp.gov.br/download?id=7"}}

NoHeaders == [name \in {} |-> ""]

Headers(content_disposition) ==
    [name \in {"Content-Disposition"} |-> content_disposition]

Responses ==
    {[present |-> FALSE, headers |-> NoHeaders],
     [present |-> TRUE, headers |-> NoHeaders]}
    \cup {[present |-> TRUE, headers |-> Headers(value)] : value \in
             {"",
              "attachment",
              "attachment; filename=\"\"",
              "attachment; filename=\"relatorio.pdf\"",
              "inline; filename=\"relatorio.pdf\"; size=10",
              "attachment; filename=\"edital.pdf\""}}

Items ==
    {[territory_id |-> territory_id, date |-> date] :
        territory_id \in {SP_RIBEIRAO_PRETO, "1100122"},
        date \in {Date(2023, 1, 10), Date(2023, 11, 5)}}

\* file_path of every call, worked out once
FilePathTable ==
    [request \in Requests, response \in Responses, item \in Items |->
        file_path(request, response, item)] @@ <<>>

InitFilePath ==
    /\ calls = {}
    /\ MediaIdle
    /\ ParserIdle
    /\ SinkIdle
    /\ CrawlIdle

\* file_path is called, with or without a response
FilePathCall ==
    /\ Cardinality(calls) < MaxCalls
    /\ \E request \in Requests, response \in Responses, item \in Items :
          calls' = calls \cup
              {[request |-> request, response |-> response, item |-> item,
                path |-> FilePathTable[request, response, item]]}
    /\ UNCHANGED <<mediaVars, parserVars, sinkVars, crawlVars>>

NextFilePath == FilePathCall

SpecFilePath == InitFilePath /\ [][NextFilePath]_vars

-----------------------------------------------------------------------------
(* QueridoDiarioFilesPipeline.get_media_requests and item_completed *)

\* self.files_urls_field, self.files_requests_field and
\* self.files_result_field, at their defaults
FILES_URLS_FIELD == "file_urls"

DEFAULT_FILES_REQUESTS_FIELD == "file_requests"

FILES_RESULT_FIELD == "files"

\* ItemAdapter(item).get(field, default)
ItemGet(item, field, default) ==
    IF field \in DOMAIN item THEN item[field] ELSE default

\* ItemAdapter(item)[field] = value
ItemSet(item, field, value) ==
    [name \in DOMAIN item \cup {field} |->
        IF name = field THEN value ELSE item[name]]

\* The URL of a request: spaces are percent-encoded
SafeUrlString(url) == Replace(url, " ", "%20")

\* Mutant: the request is made without headers
Request_NoHeaders(url, headers) ==
    [class |-> "Request", method |-> "GET", url |-> SafeUrlString(url),
     headers |-> NoHeaders]

\* Request(u, headers=download_file_headers)
Request(url, headers) ==
    [class |-> "Request", method |-> "GET", url |-> SafeUrlString(url),
     headers |-> headers]

\* A str, as an element of a list that may also hold requests
Str(value) == [class |-> "str", value |-> value]

\* Mutant: only the URL is kept
RequestSummary_UrlOnly(r) == Str(r.url)

\* f"{r.method} {r.url}"
RequestSummary(r) == Str(r.method \o " " \o r.url)

\* Every list of at most MaxRefs elements of S
ListsOf(S) == UNION {[1..n -> S] : n \in 0..MaxRefs}

\* URLs a spider puts in file_urls
FileUrls ==
    {"https://diariooficialjp.com.br/pdf/2023-01-10.pdf",
     "https://diariooficialjp.com.br/pdf/2023 01 10.pdf"}

\* Requests a spider puts in file_requests
FileRequests ==
    {[class |-> "Request", method |-> "POST",
      url |-> "https://www.ribeiraopreto.sp.gov.br/pdf/dom.xhtml",
      headers |-> [name \in {"Content-Type"} |->
                      "application/x-www-form-urlencoded"]],
     [class |-> "Request", method |-> "GET",
      url |-> "https://www.ribeiraopreto.sp.gov.br/download?id=7",
      headers |-> NoHeaders]}

\* The items handed to the pipeline: each of the two fields may be absent
MediaItems ==
    {urls @@ requests @@ [territory_id |-> "1100122"] :
        urls \in {<<>>} \cup {[file_urls |-> list] : list \in ListsOf(FileUrls)},
        requests \in {<<>>} \cup
            {[file_requests |-> list] : list \in ListsOf(FileRequests)}}

\* The spider defines download_file_headers or does not
Spiders ==
    {<<>>,
     [download_file_headers |-> [name \in {"User-Agent"} |-> "Mozilla/5.0"]]}

\* getattr(info.spider, "download_file_headers", {})
DownloadFileHeaders ==
    IF "download_file_headers" \in DOMAIN spider
    THEN spider.download_file_headers ELSE NoHeaders

\* The result scrapy keeps for one request: (ok, file info or failure)
ResultOf(request, ok) ==
    IF ok THEN <<TRUE, [url |-> request.url, status |-> "downloaded"]>>
    ELSE <<FALSE, [failure |-> "FileException"]>>

\* FilesPipeline.item_completed: the successful results go to item["files"]
DefaultItemCompleted(results, item) ==
    ItemSet(item, FILES_RESULT_FIELD,
            LET ok == SelectSeq(results, LAMBDA result : result[1])
            IN  [i \in 1..Len(ok) |-> ok[i][2]])

\* item_completed(results, item, info)
item_completed(results, item) ==
    LET requests == ItemGet(item, DEFAULT_FILES_REQUESTS_FIELD, <<>>)
        summarised ==
            IF requests # <<>>
            THEN ItemSet(item, DEFAULT_FILES_REQUESTS_FIELD,
                         [i \in 1..Len(requests) |-> RequestSummary(requests[i])])
            ELSE item
    IN  DefaultItemCompleted(results, summarised)

InitMedia ==
    /\ calls = {}
    /\ spider \in Spiders
    /\ media_input \in MediaItems
    /\ media_item = media_input
    /\ media_pc = "file_urls"
    /\ media_requests = <<>>
    /\ ParserIdle
    /\ SinkIdle
    /\ CrawlIdle

\* Requests yielded so far for file_urls, and for file_requests
UrlsOfItem == ItemGet(media_item, FILES_URLS_FIELD, <<>>)

RequestsOfItem == ItemGet(media_item, DEFAULT_FILES_REQUESTS_FIELD, <<>>)

\* The first generator yields the request of the next URL
YieldUrlRequest ==
    /\ media_pc = "file_urls"
    /\ Len(media_requests) < Len(UrlsOfItem)
    /\ media_requests' =
          Append(media_requests,
                 Request(UrlsOfItem[Len(media_requests) + 1],
                         DownloadFileHeaders))
    /\ UNCHANGED <<calls, spider, media_input, media_item, media_pc>>
    /\ UNCHANGED <<parserVars, sinkVars, crawlVars>>

\* The first generator is exhausted
UrlRequestsDone ==
    /\ media_pc = "file_urls"
    /\ Len(media_requests) = Len(UrlsOfItem)
    /\ media_pc' = "file_requests"
    /\ UNCHANGED <<calls, spider, media_input, media_item, media_requests>>
    /\ UNCHANGED <<parserVars, sinkVars, crawlVars>>

\* yield from requests: the next ready request is let through
YieldReadyRequest ==
    /\ media_pc = "file_requests"
    /\ Len(media_requests) < Len(UrlsOfItem) + Len(RequestsOfItem)
    /\ media_requests' =
          Append(media_requests,
                 RequestsOfItem[Len(media_requests) - Len(UrlsOfItem) + 1])
    /\ UNCHANGED <<calls, spider, media_input, media_item, media_pc>>
    /\ UNCHANGED <<parserVars, sinkVars, crawlVars>>

\* Every request has a result: item_completed runs
ItemCompleted ==
    /\ media_pc = "file_requests"
    /\ Len(media_requests) = Len(UrlsOfItem) + Len(RequestsOfItem)
    /\ \E ok \in [1..Len(media_requests) -> BOOLEAN] :
          media_item' =
              item_completed([i \in 1..Len(media_requests) |->
                                 ResultOf(media_requests[i], ok[i])],
                             media_item)
    /\ media_pc' = "completed"
    /\ UNCHANGED <<calls, spider, media_input, media_requests>>
    /\ UNCHANGED <<parserVars, sinkVars, crawlVars>>

NextMedia ==
    \/ YieldUrlRequest
    \/ UrlRequestsDone
    \/ YieldReadyRequest
    \/ ItemCompleted

SpecMedia == InitMedia /\ [][NextMedia]_vars

-----------------------------------------------------------------------------
(* SQLDatabasePipeline.process_item *)

\* QUERIDODIARIO_DATABASE_URL of the settings; "None" is the unset setting
DatabaseUrls == {"None", "postgresql://queridodiario/gazettes"}

\* The fields of the item copied into gazette_item
ItemFields == [date |-> Date(2023, 1, 10), territory_id |-> SP_RIBEIRAO_PRETO]

\* One result of the files pipeline: the path is the one file_path gave
FileInfo(url, checksum, status) ==
    [url |-> url,
     path |-> file_path([url |-> url],
                        [present |-> TRUE, headers |-> NoHeaders], ItemFields),
     checksum |-> checksum,
     status |-> status]

\* The results the files pipeline leaves in item["files"]
FileInfos ==
    {FileInfo("https://www.ribeiraopreto.sp.gov.br/pdf/dom.xhtml",
              "0cc175b9c0f1b6a831c399e269772661", "downloaded"),
     FileInfo("https://www.ribeiraopreto.sp.gov.br/pdf/dom.xhtml",
              "0cc175b9c0f1b6a831c399e269772661", "uptodate"),
     FileInfo("https://www.ribeiraopreto.sp.gov.br/pdf/dom-b.xhtml",
              "92eb5ffee6ae2fec3ad71c777531578f", "cached")}

\* item.get("files", []): every list of at most MaxFiles results
FileLists ==
    UNION {[1..n -> FileInfos] : n \in 0..MaxFiles}

\* Mutant: no file counts as already downloaded
already_downloaded_Never(file_info) == FALSE

already_downloaded(file_info) == file_info.status = "uptodate"

\* Gazette(**gazette_item) for one file
GazetteRow(file_info) ==
    [date |-> ItemFields.date,
     territory_id |-> ItemFields.territory_id,
     file_path |-> file_info.path,
     file_url |-> file_info.url,
     file_checksum |-> file_info.checksum]

\* The fields of gazette_item the warning names
Warning(file_info) ==
    [date |-> ItemFields.date, file_checksum |-> file_info.checksum]

\* Mutant: the rollback leaves the failed object in the session
Rollback_KeepsPending(pending) == pending

\* session.rollback(): the objects added and not committed are expunged
Rollback(pending) == <<>>

InitSink ==
    /\ database_url \in DatabaseUrls
    /\ files \in FileLists
    /\ sink_pc = "start"
    /\ fidx = 1
    /\ session = <<>>
    /\ database = <<>>
    /\ attempted = <<>>
    /\ warnings = <<>>
    /\ ParserIdle
    /\ PathIdle
    /\ CrawlIdle

\* No database is configured: the item is returned at once
ReturnWithoutDatabase ==
    /\ sink_pc = "start"
    /\ database_url = "None"
    /\ sink_pc' = "returned"
    /\ UNCHANGED <<database_url, files, fidx, session, database, attempted, warnings>>
    /\ UNCHANGED <<parserVars, pathVars, crawlVars>>

OpenSession ==
    /\ sink_pc = "start"
    /\ database_url # "None"
    /\ sink_pc' = "loop"
    /\ session' = <<>>
    /\ UNCHANGED <<database_url, files, fidx, database, attempted, warnings>>
    /\ UNCHANGED <<parserVars, pathVars, crawlVars>>

\* The file was already downloaded before: continue
SkipAlreadyDownloaded ==
    /\ sink_pc = "loop"
    /\ fidx <= Len(files)
    /\ already_downloaded(files[fidx])
    /\ fidx' = fidx + 1
    /\ UNCHANGED <<database_url, files, sink_pc, session, database, attempted, warnings>>
    /\ UNCHANGED <<parserVars, pathVars, crawlVars>>

SessionAdd ==
    /\ sink_pc = "loop"
    /\ fidx <= Len(files)
    /\ ~already_downloaded(files[fidx])
    /\ session' = Append(session, GazetteRow(files[fidx]))
    /\ sink_pc' = "commit"
    /\ UNCHANGED <<database_url, files, fidx, database, attempted, warnings>>
    /\ UNCHANGED <<parserVars, pathVars, crawlVars>>

\* session.commit() returns
CommitSucceeds ==
    /\ sink_pc = "commit"
    /\ database' = database \o session
    /\ session' = <<>>
    /\ attempted' = Append(attempted, files[fidx])
    /\ fidx' = fidx + 1
    /\ sink_pc' = "loop"
    /\ UNCHANGED <<database_url, files, warnings>>
    /\ UNCHANGED <<parserVars, pathVars, crawlVars>>

\* session.commit() raises SQLAlchemyError: warning and session.rollback()
CommitFails ==
    /\ sink_pc = "commit"
    /\ warnings' = Append(warnings, Warning(files[fidx]))
    /\ session' = Rollback(session)
    /\ attempted' = Append(attempted, files[fidx])
    /\ fidx' = fidx + 1
    /\ sink_pc' = "loop"
    /\ UNCHANGED <<database_url, files, database>>
    /\ UNCHANGED <<parserVars, pathVars, crawlVars>>

\* The loop is over: session.close() and return item
CloseAndReturn ==
    /\ sink_pc = "loop"
    /\ fidx > Len(files)
    /\ sink_pc' = "returned"
    /\ UNCHANGED <<database_url, files, fidx, session, database, attempted, warnings>>
    /\ UNCHANGED <<parserVars, pathVars, crawlVars>>

NextSink ==
    \/ ReturnWithoutDatabase
    \/ OpenSession
    \/ SkipAlreadyDownloaded
    \/ SessionAdd
    \/ CommitSucceeds
    \/ CommitFails
    \/ CloseAndReturn

SpecSink == InitSink /\ [][NextSink]_vars

\* process_item runs on: each statement that can run does run
SpecSinkFair == SpecSink /\ WF_vars(NextSink)

-----------------------------------------------------------------------------
(* Several listing pages in progress: the engine runs the generator of one  *)
(* callback, then of another, in any order                                  *)

\* Largest number of nodes of a listing page of the crawl.
MaxPageEntries == 2

\* The responses whose callbacks are in progress
PageIds == {1, 2}

\* Nodes of the listing pages of the crawl
CrawlNodes == {
    Node(<<"1800", "", "2014", "03", "10">>, "http://domjp.com.br/pdf/2014-03-10.pdf"),
    Node(<<"1800", "", "2014", "03", "10">>, "pdf/2014-03-10-b.pdf"),
    Node(<<"1801", "", "2014", "03", "10">>, "https://domjp.com.br/pdf/2014-03-10.pdf")
}

\* Mutant: one dict, kept on the spider, serves every callback
StoreOf_Spider(p) == 1

\* Line 119: the dict is a local of the call of the callback
StoreOf(p) == p

InitCrawl ==
    /\ \E until \in EndDates :
          tasks \in [PageIds -> {[year |-> y, end_date |-> until, page |-> <<>>,
                                  pc |-> "scan", gidx |-> 1, emitted |-> <<>>] :
                                     y \in RequestedYears(until)}]
    /\ stores = [p \in PageIds |-> <<>>]
    /\ ParserIdle
    /\ PathIdle
    /\ SinkIdle

\* The loop of callback p takes a node that is skipped
PageSkipNode ==
    \E p \in PageIds, node \in CrawlNodes :
        /\ tasks[p].pc = "scan"
        /\ Len(tasks[p].page) < MaxPageEntries
        /\ OutcomeTable[node, tasks[p].year, tasks[p].end_date]
              \in {"unmatched", "other_year", "out_of_bounds"}
        /\ tasks' = [tasks EXCEPT ![p].page = Append(@, node)]
        /\ UNCHANGED stores
        /\ UNCHANGED <<parserVars, pathVars, sinkVars>>

\* The loop of callback p takes a node that reaches _validate_uniqueness
PageValidateUniqueness ==
    \E p \in PageIds, node \in CrawlNodes :
        /\ tasks[p].pc = "scan"
        /\ Len(tasks[p].page) < MaxPageEntries
        /\ OutcomeTable[node, tasks[p].year, tasks[p].end_date] = "validate"
        /\ tasks' = [tasks EXCEPT ![p].page = Append(@, node)]
        /\ stores' = [stores EXCEPT ![StoreOf(p)] =
                         RegisterNode(@, node, tasks[p].year)]
        /\ UNCHANGED <<parserVars, pathVars, sinkVars>>

\* Callback p has no more nodes: _yield_gazettes starts on its dict
PageStartYieldGazettes ==
    \E p \in PageIds :
        /\ tasks[p].pc = "scan"
        /\ tasks' = [tasks EXCEPT ![p].pc = "yield_gazettes", ![p].gidx = 1]
        /\ UNCHANGED stores
        /\ UNCHANGED <<parserVars, pathVars, sinkVars>>

\* One GazetteKey of the dict of callback p
PageYieldGazettesIteration ==
    \E p \in PageIds :
        LET data == stores[StoreOf(p)]
            i == tasks[p].gidx
        IN  /\ tasks[p].pc = "yield_gazettes"
            /\ i <= Len(data)
            /\ IF PopRaises(data[i].value)
               THEN /\ tasks' = [tasks EXCEPT ![p].pc = "KeyError"]
                    /\ UNCHANGED stores
               ELSE /\ tasks' = [tasks EXCEPT
                                    ![p].gidx = i + 1,
                                    ![p].emitted =
                                        @ \o Yielded(data[i].key, data[i].value)]
                    /\ stores' = [stores EXCEPT ![StoreOf(p)] =
                                     [data EXCEPT ![i].value = AfterPops(@)]]
            /\ UNCHANGED <<parserVars, pathVars, sinkVars>>

\* The generator of callback p is exhausted
PageFinish ==
    \E p \in PageIds :
        /\ tasks[p].pc = "yield_gazettes"
        /\ tasks[p].gidx > Len(stores[StoreOf(p)])
        /\ tasks' = [tasks EXCEPT ![p].pc = "done"]
        /\ UNCHANGED stores
        /\ UNCHANGED <<parserVars, pathVars, sinkVars>>

NextCrawl ==
    \/ PageSkipNode
    \/ PageValidateUniqueness
    \/ PageStartYieldGazettes
    \/ PageYieldGazettesIteration
    \/ PageFinish

SpecCrawl == InitCrawl /\ [][NextCrawl]_vars

-----------------------------------------------------------------------------
(* Whole runs of the callback on a list of nodes, and what a page registers *)

\* The GazettesDataPerPage after the loop over nodes, none of which raises
RECURSIVE DataAfter(_, _, _, _)
DataAfter(data, nodes, y, until) ==
    IF nodes = <<>> THEN data
    ELSE DataAfter(
             IF OutcomeTable[Head(nodes), y, until] = "validate"
             THEN RegisterNode(data, Head(nodes), y)
             ELSE data,
             Tail(nodes), y, until)

\* Everything _yield_gazettes yields for a GazettesDataPerPage
RECURSIVE YieldAll(_)
YieldAll(data) ==
    IF data = <<>> THEN <<>>
    ELSE Yielded(Head(data).key, Head(data).value) \o YieldAll(Tail(data))

\* Everything the callback yields for a page, none of whose nodes raises
RunPage(nodes, y, until) == YieldAll(DataAfter(<<>>, nodes, y, until))

\* The node reaches _validate_uniqueness and is not in its exception table
Registers(node, y, until) ==
    /\ OutcomeTable[node, y, until] = "validate"
    /\ ~IsKnownBadEntry(EntryTable[node, y].gazette_date, EntryTable[node, y].url)

\* GroupKey = (date, edition_number, is_extra_edition)
GroupKey(date, edition_number, is_extra_edition) ==
    <<date, edition_number, is_extra_edition>>

\* The (GroupKey, PartKey, URL) triple a registering node stands for
Triple(node, y) ==
    LET entry == EntryTable[node, y]
    IN  [group |-> GroupKey(entry.gazette_date, entry.edition_number,
                            entry.is_extra_edition),
         part |-> entry.is_extra_edition_text,
         url |-> entry.url]

\* The triples registered by the nodes iterated so far (order forgotten)
PageTriples ==
    {Triple(page[i], year) :
        i \in {j \in 1..Len(page) : Registers(page[j], year, end_date)}}

GroupsOf(triples) == {t.group : t \in triples}
PartsOf(triples, group) == {t.part : t \in {x \in triples : x.group = group}}
UrlsOf(triples, group, part) ==
    {t.url : t \in {x \in triples : x.group = group /\ x.part = part}}
GroupUrls(triples, group) == {t.url : t \in {x \in triples : x.group = group}}

InConflict(triples, group) ==
    \E part \in PartsOf(triples, group) :
        Cardinality(UrlsOf(triples, group, part)) > 1

\* The GroupKey of an emitted record, and of a key of the page's dict
KeyOf(gazette) ==
    GroupKey(gazette.date, gazette.edition_number, gazette.is_extra_edition)

GroupOf(key) ==
    GroupKey(key.gazette_date, key.edition_number, key.is_extra_edition)

Range(seq) == {seq[i] : i \in 1..Len(seq)}

Yielding == pc \in {"yield_gazettes", "done"}

-----------------------------------------------------------------------------
(* C1 *)

\* C1 as stated: at the end of the page no emitted record carries the key of
\* a GroupKey in conflict, NONE OF THAT GROUP'S URLS APPEARS IN ANY EMITTED
\* RECORD, and every GroupKey without a conflict has its record.
C1_AsStated ==
    pc = "done" =>
        LET triples == PageTriples
        IN  \A group \in GroupsOf(triples) :
                IF InConflict(triples, group)
                THEN \A gazette \in Range(emitted) :
                        /\ KeyOf(gazette) # group
                        /\ Range(gazette.file_urls)
                               \cap GroupUrls(triples, group) = {}
                ELSE \E gazette \in Range(emitted) : KeyOf(gazette) = group

\* C1 amended: a GroupKey in conflict never has a record (at no point of the
\* emission), every URL of an emitted record is one registered under that
\* record's own GroupKey (so a URL of a dropped GroupKey is emitted only where
\* another, conflict-free GroupKey registered the same URL), and at the end of
\* the page every GroupKey without a conflict has its record.
C1_ConflictRejection ==
    Yielding =>
        LET triples == PageTriples
        IN  /\ \A gazette \in Range(emitted) :
                  /\ ~InConflict(triples, KeyOf(gazette))
                  /\ Range(gazette.file_urls)
                         \subseteq GroupUrls(triples, KeyOf(gazette))
            /\ pc = "done" =>
                  \A group \in GroupsOf(triples) :
                      ~InConflict(triples, group) =>
                          \E gazette \in Range(emitted) : KeyOf(gazette) = group

\* A page is done on which a GroupKey in conflict also holds a PartKey with a
\* single URL, and nothing was emitted for it.
C1_Witness ==
    /\ pc = "done"
    /\ LET triples == PageTriples
       IN  \E group \in GroupsOf(triples) :
              /\ InConflict(triples, group)
              /\ \E part \in PartsOf(triples, group) :
                    Cardinality(UrlsOf(triples, group, part)) = 1
              /\ \A gazette \in Range(emitted) : KeyOf(gazette) # group

-----------------------------------------------------------------------------
(* C2 *)

\* The nodes with every node dropped whose triple an earlier node registered
RECURSIVE Deduplicated(_, _, _, _)
Deduplicated(nodes, seen, y, until) ==
    IF nodes = <<>> THEN <<>>
    ELSE IF ~Registers(Head(nodes), y, until)
         THEN <<Head(nodes)>> \o Deduplicated(Tail(nodes), seen, y, until)
    ELSE IF Triple(Head(nodes), y) \in seen
         THEN Deduplicated(Tail(nodes), seen, y, until)
    ELSE <<Head(nodes)>>
             \o Deduplicated(Tail(nodes), seen \cup {Triple(Head(nodes), y)},
                             y, until)

\* C2: registering an already registered triple again changes nothing: while
\* the page is scanned the aggregation state is the one obtained by
\* registering each triple once (at its first place), and the records of the
\* finished page are those of the page with the repetitions removed.
C2_IdempotentInsertion ==
    LET once == Deduplicated(page, {}, year, end_date)
    IN  /\ pc = "scan" =>
              current_gazettes_data_per_page = DataAfter(<<>>, once, year, end_date)
        /\ pc = "done" => emitted = RunPage(once, year, end_date)

\* A page is done that registered a triple, then another one, then the first
\* again, and its record was emitted.
C2_Witness ==
    /\ pc = "done"
    /\ Len(page) = 3
    /\ page[1] = page[3]
    /\ page[1] # page[2]
    /\ \A i \in 1..3 : Registers(page[i], year, end_date)
    /\ Triple(page[1], year).group = Triple(page[2], year).group
    /\ \E gazette \in Range(emitted) :
          /\ KeyOf(gazette) = Triple(page[1], year).group
          /\ Len(gazette.file_urls) = 2

-----------------------------------------------------------------------------
(* C3 *)

\* The members of a set of str in ascending order
RECURSIVE Ascending(_)
Ascending(strings) ==
    IF strings = {} THEN <<>>
    ELSE LET least == CHOOSE a \in strings :
                          \A b \in strings \ {a} : StrLess(a, b)
         IN  <<least>> \o Ascending(strings \ {least})

\* The document list of a GroupKey without conflict, from the triples alone
DocumentList(triples, group) ==
    LET parts == Ascending(PartsOf(triples, group))
    IN  [i \in 1..Len(parts) |->
            CHOOSE url \in UrlsOf(triples, group, parts[i]) : TRUE]

\* nodes with the nodes at i and i + 1 exchanged
Exchanged(nodes, i) ==
    [j \in 1..Len(nodes) |->
        IF j = i THEN nodes[i + 1] ELSE IF j = i + 1 THEN nodes[i] ELSE nodes[j]]

\* The document list of every record, by GroupKey
DocumentLists(gazettes) ==
    {<<KeyOf(gazette), gazette.file_urls>> : gazette \in Range(gazettes)}

\* C3: the document list of every emitted record lists the URLs of its
\* GroupKey by ascending PartKey, whatever the order of insertion, and
\* exchanging two neighbouring nodes of the page (hence any permutation)
\* changes the document list of no record.
C3_DeterministicOrdering ==
    /\ Yielding =>
          LET triples == PageTriples
          IN  \A gazette \in Range(emitted) :
                  gazette.file_urls = DocumentList(triples, KeyOf(gazette))
    /\ pc = "done" =>
          \A i \in 1..(Len(page) - 1) :
              DocumentLists(RunPage(Exchanged(page, i), year, end_date))
                  = DocumentLists(emitted)

\* A page is done whose record lists two documents, the PartKey of the second
\* inserted before the PartKey of the first.
C3_Witness ==
    /\ pc = "done"
    /\ \E i \in 1..Len(current_gazettes_data_per_page) :
          LET entry == current_gazettes_data_per_page[i]
          IN  /\ Len(entry.value) >= 2
              /\ StrLess(entry.value[2].key, entry.value[1].key)
              /\ \E gazette \in Range(emitted) :
                    /\ KeyOf(gazette) = GroupOf(entry.key)
                    /\ Len(gazette.file_urls) = Len(entry.value)

-----------------------------------------------------------------------------
(* C4 *)

\* How many times x occurs in seq
Occurrences(seq, x) == Cardinality({i \in 1..Len(seq) : seq[i] = x})

\* C4: the finished page has exactly one record for every GroupKey that had
\* an insertion and holds no PartKey in conflict, and none for any other
\* key; the document list of a record has one element per PartKey of its
\* GroupKey, each the single URL registered under that PartKey.
C4_OneRecordPerGroup ==
    pc = "done" =>
        LET triples == PageTriples
            emittedKeys == {KeyOf(gazette) : gazette \in Range(emitted)}
        IN  /\ emittedKeys =
                   {group \in GroupsOf(triples) : ~InConflict(triples, group)}
            /\ Len(emitted) = Cardinality(emittedKeys)
            /\ \A gazette \in Range(emitted) :
                  LET group == KeyOf(gazette)
                  IN  /\ Len(gazette.file_urls)
                             = Cardinality(PartsOf(triples, group))
                      /\ \A url \in GroupUrls(triples, group)
                                       \cup Range(gazette.file_urls) :
                            Occurrences(gazette.file_urls, url) =
                                Cardinality({part \in PartsOf(triples, group) :
                                    UrlsOf(triples, group, part) = {url}})

\* A page is done with two records, one of them listing two documents.
C4_Witness ==
    /\ pc = "done"
    /\ Len(emitted) = 2
    /\ \E gazette \in Range(emitted) : Len(gazette.file_urls) = 2

-----------------------------------------------------------------------------
(* C5 *)

\* The node carries a date of another year than the queried one
OfOtherYear(node, y) ==
    /\ node.match_ # <<>>
    /\ ValidDate(StrToInt(node.match_[3]), StrToInt(node.match_[4]),
                 StrToInt(node.match_[5]))
    /\ StrToInt(node.match_[3]) # y

OtherYearTable == [node \in Nodes, y \in AllYears |-> OfOtherYear(node, y)] @@ <<>>

\* C5: every emitted record is dated in the queried year; a node dated in
\* another year changes nothing and the nodes after it are processed: the
\* aggregation state of the scan, and the records of the finished page, are
\* those of the page without its nodes of another year.
C5_YearBoundary ==
    /\ \A gazette \in Range(emitted) : gazette.date.year = year
    /\ LET sameYear == SelectSeq(page, LAMBDA node : ~OtherYearTable[node, year])
       IN  /\ pc = "scan" =>
                 current_gazettes_data_per_page =
                     DataAfter(<<>>, sameYear, year, end_date)
           /\ pc = "done" => emitted = RunPage(sameYear, year, end_date)

\* A page is done whose second node is of another year, between two nodes
\* that were registered and emitted.
C5_Witness ==
    /\ pc = "done"
    /\ Len(page) = 3
    /\ OtherYearTable[page[2], year]
    /\ Registers(page[1], year, end_date)
    /\ Registers(page[3], year, end_date)
    /\ Len(emitted) = 2

-----------------------------------------------------------------------------
(* C6 *)

\* Every text segment and normalized URL of a node
EntryStrings ==
    UNION {{EntryTable[key].is_extra_edition_text, EntryTable[key].url} :
              key \in DOMAIN EntryTable}

\* Whether the extra-edition pattern matches, for each of them
MatchesExtraPattern ==
    [string \in EntryStrings |-> Search(IS_EXTRA_EDITION_PATTERN, string)] @@ <<>>

\* C6: while the page is scanned, every URL is stored under a GroupKey whose
\* is_extra_edition is true exactly when the PartKey it is stored under
\* (the text segment) or the URL matches the extra-edition pattern, and every
\* registered node is stored that way.
C6_ExtraEditionOr ==
    pc = "scan" =>
        /\ \A i \in 1..Len(current_gazettes_data_per_page) :
              LET entry == current_gazettes_data_per_page[i]
              IN  \A j \in 1..Len(entry.value) : \A url \in entry.value[j].value :
                      entry.key.is_extra_edition
                          <=> (\/ MatchesExtraPattern[entry.value[j].key]
                               \/ MatchesExtraPattern[url])
        /\ \A n \in 1..Len(page) :
              Registers(page[n], year, end_date) =>
                  LET node == EntryTable[page[n], year]
                      key == [gazette_date |-> node.gazette_date,
                              edition_number |-> node.edition_number,
                              is_extra_edition |->
                                  (\/ MatchesExtraPattern[node.is_extra_edition_text]
                                   \/ MatchesExtraPattern[node.url])]
                  IN  /\ HasKey(current_gazettes_data_per_page, key)
                      /\ HasKey(Get(current_gazettes_data_per_page, key),
                                node.is_extra_edition_text)
                      /\ node.url \in Get(Get(current_gazettes_data_per_page, key),
                                          node.is_extra_edition_text)

\* Three nodes were registered: one whose text alone matches, one whose URL
\* alone matches, one of which neither matches.
C6_Witness ==
    /\ pc = "scan"
    /\ Len(page) = 3
    /\ \A n \in 1..3 : Registers(page[n], year, end_date)
    /\ \E a, b, c \in 1..3 :
          /\ MatchesExtraPattern[EntryTable[page[a], year].is_extra_edition_text]
          /\ ~MatchesExtraPattern[EntryTable[page[a], year].url]
          /\ ~MatchesExtraPattern[EntryTable[page[b], year].is_extra_edition_text]
          /\ MatchesExtraPattern[EntryTable[page[b], year].url]
          /\ ~MatchesExtraPattern[EntryTable[page[c], year].is_extra_edition_text]
          /\ ~MatchesExtraPattern[EntryTable[page[c], year].url]
          /\ Len(current_gazettes_data_per_page) = 2

-----------------------------------------------------------------------------
(* C7 *)

\* The arguments of the _validate_uniqueness calls that registered a node
RegisteredEntries ==
    {EntryTable[page[i], year] :
        i \in {j \in 1..Len(page) : Registers(page[j], year, end_date)}}

SameEdition(a, b) ==
    /\ a.gazette_date = b.gazette_date
    /\ a.edition_number = b.edition_number

\* The entries classified like entry, of the same date and edition number
OwnEntries(entries, entry) ==
    {x \in entries : SameEdition(x, entry)
                     /\ x.is_extra_edition = entry.is_extra_edition}

OwnUrls(entries, entry) == {x.url : x \in OwnEntries(entries, entry)}

\* Two entries classified like entry share the PartKey and differ in URL
OwnConflict(entries, entry) ==
    \E x, y \in OwnEntries(entries, entry) :
        x.is_extra_edition_text = y.is_extra_edition_text /\ x.url # y.url

\* The emitted records of the date, edition number and classification of entry
RecordsFor(entry) ==
    {i \in 1..Len(emitted) :
        /\ emitted[i].date = entry.gazette_date
        /\ emitted[i].edition_number = entry.edition_number
        /\ emitted[i].is_extra_edition = entry.is_extra_edition}

\* Pairs of entries of one date and edition number, classified differently
Counterparts(entries) ==
    {pair \in entries \X entries :
        /\ SameEdition(pair[1], pair[2])
        /\ pair[1].is_extra_edition # pair[2].is_extra_edition}

\* C7 as stated: for two entries of one date and edition number that differ
\* in extra-edition classification, the finished page ALWAYS has two records,
\* one for each classification, each listing only its own documents.
C7_AsStated ==
    pc = "done" =>
        LET entries == RegisteredEntries
        IN  \A pair \in Counterparts(entries) : \A n \in 1..2 :
                /\ Cardinality(RecordsFor(pair[n])) = 1
                /\ \A i \in RecordsFor(pair[n]) :
                      Range(emitted[i].file_urls) \subseteq OwnUrls(entries, pair[n])

\* C7 amended: two such entries are stored under two different keys, each key
\* holding under a PartKey only the URLs of the entries classified like it,
\* so the two never conflict with each other; the finished page has, for each
\* of the two GroupKeys, exactly one record listing exactly its own documents
\* unless entries of that same GroupKey conflict among themselves, in which
\* case that GroupKey alone has no record (two distinct records when neither
\* GroupKey has a conflict of its own).
C7_ExtraEditionSeparation ==
    LET entries == RegisteredEntries
    IN  \A pair \in Counterparts(entries) : \A n \in 1..2 :
            LET entry == pair[n]
                key == [gazette_date |-> entry.gazette_date,
                        edition_number |-> entry.edition_number,
                        is_extra_edition |-> entry.is_extra_edition]
            IN  /\ pc = "scan" =>
                      /\ HasKey(current_gazettes_data_per_page, key)
                      /\ LET parts == Get(current_gazettes_data_per_page, key)
                         IN  \A j \in 1..Len(parts) :
                                 parts[j].value =
                                     {x.url : x \in {y \in OwnEntries(entries, entry) :
                                         y.is_extra_edition_text = parts[j].key}}
                /\ pc = "done" =>
                      IF OwnConflict(entries, entry)
                      THEN RecordsFor(entry) = {}
                      ELSE /\ Cardinality(RecordsFor(entry)) = 1
                           /\ \A i \in RecordsFor(entry) :
                                 Range(emitted[i].file_urls) = OwnUrls(entries, entry)

\* A page is done with two entries of one date, edition number and PartKey,
\* of different URLs and classifications, and a record for each.
C7_Witness ==
    /\ pc = "done"
    /\ \E pair \in Counterparts(RegisteredEntries) :
          /\ pair[1].is_extra_edition_text = pair[2].is_extra_edition_text
          /\ pair[1].url # pair[2].url
          /\ Cardinality(RecordsFor(pair[1])) = 1
          /\ Cardinality(RecordsFor(pair[2])) = 1

-----------------------------------------------------------------------------
(* C8 *)

\* The Content-Disposition values that embed filename="X", with their X
EmbeddedFilename ==
    [header \in {"attachment; filename=\"relatorio.pdf\"",
                 "inline; filename=\"relatorio.pdf\"; size=10",
                 "attachment; filename=\"edital.pdf\""} |->
        IF header = "attachment; filename=\"edital.pdf\""
        THEN "edital.pdf" ELSE "relatorio.pdf"]

\* YYYY-MM-DD of the dates of the items
DateText ==
    [date \in {Date(2023, 1, 10), Date(2023, 11, 5)} |->
        IF date = Date(2023, 1, 10) THEN "2023-01-10" ELSE "2023-11-05"]

\* The call has a response whose Content-Disposition embeds a file name
Sniffed(call) ==
    /\ call.response.present
    /\ "Content-Disposition" \in DOMAIN call.response.headers
    /\ call.response.headers["Content-Disposition"] \in DOMAIN EmbeddedFilename

SniffedFilename(call) ==
    EmbeddedFilename[call.response.headers["Content-Disposition"]]

\* C8: for an item of territory 3543402 and a response whose
\* Content-Disposition embeds filename="X", file_path returns
\* 3543402/YYYY-MM-DD/sha1(X); two calls of the same item date and the same X
\* return the same path, whatever their request URLs.
C8_ContentSniffing ==
    /\ \A call \in calls :
          call.item.territory_id = "3543402" /\ Sniffed(call) =>
              call.path = "3543402/" \o DateText[call.item.date] \o "/"
                              \o Sha1HexDigest[SniffedFilename(call)]
    /\ \A c1, c2 \in calls :
          /\ c1.item.territory_id = "3543402" /\ Sniffed(c1)
          /\ c2.item.territory_id = "3543402" /\ Sniffed(c2)
          /\ c1.item.date = c2.item.date
          /\ SniffedFilename(c1) = SniffedFilename(c2)
          => c1.path = c2.path

\* Two calls for territory 3543402 and the same date, of different request
\* URLs and different headers that embed the same file name, returned the
\* same path.
C8_Witness ==
    \E c1, c2 \in calls :
        /\ c1.item = c2.item
        /\ c1.item.territory_id = "3543402"
        /\ Sniffed(c1) /\ Sniffed(c2)
        /\ c1.request.url # c2.request.url
        /\ c1.response # c2.response
        /\ SniffedFilename(c1) = SniffedFilename(c2)
        /\ c1.path = c2.path

-----------------------------------------------------------------------------
(* C9 *)

\* The base name the default naming gives the request
DefaultBaseName(request) == PathName(DefaultFilePath(request))

\* The path lies in territory_id/YYYY-MM-DD of the item of the call
InItemDirectory(call) ==
    call.path = call.item.territory_id \o "/" \o DateText[call.item.date]
                    \o "/" \o PathName(call.path)

\* C9: for an item of territory 3543402 and a response whose
\* Content-Disposition is missing, empty or embeds no file name, file_path
\* returns territory_id/YYYY-MM-DD/<the default base name without its
\* extension>; for an item of another territory it returns
\* territory_id/YYYY-MM-DD/<the default base name, extension kept>, whatever
\* the response.
C9_ExtensionFallback ==
    \A call \in calls :
        /\ (/\ call.item.territory_id = "3543402"
            /\ call.response.present
            /\ ~Sniffed(call))
           => /\ InItemDirectory(call)
              /\ LastIndexOf(PathName(call.path), ".") = 0
              /\ \E extension \in {"", ".pdf", ".xhtml"} :
                    DefaultBaseName(call.request)
                        = PathName(call.path) \o extension
        /\ call.item.territory_id # "3543402"
           => /\ InItemDirectory(call)
              /\ PathName(call.path) = DefaultBaseName(call.request)

\* One call for territory 3543402 with a Content-Disposition that embeds no
\* file name lost the .xhtml of the default name; another call, for another
\* territory and with an embedded file name, kept it.
C9_Witness ==
    \E c1, c2 \in calls :
        /\ c1.item.territory_id = "3543402"
        /\ c1.response.present
        /\ "Content-Disposition" \in DOMAIN c1.response.headers
        /\ ~Sniffed(c1)
        /\ DefaultBaseName(c1.request) = PathName(c1.path) \o ".xhtml"
        /\ c2.item.territory_id # "3543402"
        /\ Sniffed(c2)
        /\ PathSuffix(c2.path) = ".xhtml"

-----------------------------------------------------------------------------
(* C10 *)

\* The files of the list whose status is not "uptodate", in list order
NotUptodate(list) ==
    SelectSeq(list, LAMBDA file_info : file_info.status # "uptodate")

\* The files of the list whose status is "uptodate"
Uptodate(list) ==
    {list[i] : i \in {k \in 1..Len(list) : list[k].status = "uptodate"}}

\* s is a prefix of t
IsPrefix(s, t) ==
    /\ Len(s) <= Len(t)
    /\ s = SubSeq(t, 1, Len(s))

\* The statement without a condition on the configuration: once process_item
\* has returned, add + commit was run for exactly the files whose status is
\* not "uptodate".
C10_AsStated ==
    sink_pc = "returned" => attempted = NotUptodate(files)

\* C10: with a database URL configured, process_item runs add + commit for
\* exactly the files whose status is not "uptodate", in list order, and for no
\* file whose status is "uptodate"; with none configured it runs add + commit
\* for no file; the item is returned in every case.
C10_SkipUptodate ==
    /\ [](/\ \A i \in 1..Len(attempted) : attempted[i] \notin Uptodate(files)
          /\ IsPrefix(attempted, NotUptodate(files))
          /\ database_url = "None" => attempted = <<>>
          /\ (sink_pc = "returned" /\ database_url # "None")
                => attempted = NotUptodate(files))
    /\ <>(sink_pc = "returned")

\* process_item has returned from a list that mixes an "uptodate" file between
\* two others, one commit having failed and one succeeded.
C10_Witness ==
    /\ sink_pc = "returned"
    /\ database_url # "None"
    /\ Len(files) = 3
    /\ files[1].status # "uptodate"
    /\ files[2].status = "uptodate"
    /\ files[3].status # "uptodate"
    /\ Len(attempted) = 2
    /\ Len(database) = 1

-----------------------------------------------------------------------------
(* C11 *)

RECURSIVE IsSubsequence(_, _)
\* s is t with some of its elements left out
IsSubsequence(s, t) ==
    IF s = <<>> THEN TRUE
    ELSE IF t = <<>> THEN FALSE
    ELSE IF Head(s) = Head(t) THEN IsSubsequence(Tail(s), Tail(t))
    ELSE IsSubsequence(s, Tail(t))

\* The rows, and the warnings, of the files add + commit was run for
AttemptedRows == [i \in 1..Len(attempted) |-> GazetteRow(attempted[i])]

AttemptedWarnings == [i \in 1..Len(attempted) |-> Warning(attempted[i])]

\* C11: a commit that fails with a database error is rolled back and logged:
\* between two files nothing is pending in the session, every attempt ended
\* either as one committed row or as one warning (a failed file is not
\* committed by a later commit), the committed rows only grow, every file that
\* is not "uptodate" is still attempted after a failure, and process_item
\* returns the item.
C11_FailureIsLocal ==
    /\ [](/\ sink_pc \in {"loop", "returned"} => session = <<>>
          /\ sink_pc \in {"loop", "returned"}
                => Len(database) + Len(warnings) = Len(attempted)
          /\ IsSubsequence(database, AttemptedRows)
          /\ IsSubsequence(warnings, AttemptedWarnings)
          /\ (sink_pc = "returned" /\ database_url # "None")
                => attempted = NotUptodate(files))
    /\ [][IsPrefix(database, database')]_vars
    /\ <>(sink_pc = "returned")

\* process_item has returned from three files none of which is "uptodate":
\* the first and the third were committed, the commit of the second failed.
C11_Witness ==
    /\ sink_pc = "returned"
    /\ Len(files) = 3
    /\ files[2] # files[1]
    /\ files[2] # files[3]
    /\ attempted = files
    /\ database = <<GazetteRow(files[1]), GazetteRow(files[3])>>
    /\ warnings = <<Warning(files[2])>>

-----------------------------------------------------------------------------
(* C12 *)

\* The field is absent from both items, or present with the same value
SameField(field, a, b) ==
    /\ field \in DOMAIN a <=> field \in DOMAIN b
    /\ field \in DOMAIN a => a[field] = b[field]

\* The pre-built requests the item came with
InputRequests == ItemGet(media_input, "file_requests", <<>>)

\* C12: after item_completed on an item with a non-empty file_requests, the
\* field is a list of the same length whose i-th element is the str
\* "<METHOD> <URL>" of the i-th original request, and holds no request; with
\* no pre-built request the field is as it was; file_urls is never modified.
C12_CompletionHandling ==
    /\ SameField("file_urls", media_input, media_item)
    /\ media_pc # "completed"
          => SameField("file_requests", media_input, media_item)
    /\ (media_pc = "completed" /\ InputRequests = <<>>)
          => SameField("file_requests", media_input, media_item)
    /\ (media_pc = "completed" /\ InputRequests # <<>>)
          => /\ Len(media_item.file_requests) = Len(InputRequests)
             /\ \A i \in 1..Len(InputRequests) :
                   /\ media_item.file_requests[i].class = "str"
                   /\ media_item.file_requests[i].value =
                         InputRequests[i].method \o " " \o InputRequests[i].url

\* item_completed has run on an item with two different pre-built requests
\* and a non-empty file_urls.
C12_Witness ==
    /\ media_pc = "completed"
    /\ Len(InputRequests) = 2
    /\ InputRequests[1] # InputRequests[2]
    /\ "file_urls" \in DOMAIN media_input
    /\ media_input.file_urls # <<>>
    /\ media_item.file_requests[1].value =
          "POST https://www.ribeiraopreto.sp.gov.br/pdf/dom.xhtml"

-----------------------------------------------------------------------------
(* C13 *)

\* The URLs the item came with
InputUrls == ItemGet(media_input, "file_urls", <<>>)

\* The header overrides of the spider, none if it defines none
Overrides ==
    IF "download_file_headers" \in DOMAIN spider
    THEN spider.download_file_headers
    ELSE [name \in {} |-> ""]

\* One GET request per URL with the overrides, then the pre-built requests
ExpectedRequests ==
    [i \in 1..Len(InputUrls) |->
        [class |-> "Request", method |-> "GET",
         url |-> SafeUrlString(InputUrls[i]), headers |-> Overrides]]
    \o InputRequests

\* C13: get_media_requests yields one request per entry of file_urls, in list
\* order and with the spider's download_file_headers (none if the spider
\* defines none), then every request of file_requests, in list order and
\* unchanged; nothing else is yielded.
C13_OneTaskPerDocumentRef ==
    /\ IsPrefix(media_requests, ExpectedRequests)
    /\ media_pc = "file_requests" => Len(media_requests) >= Len(InputUrls)
    /\ media_pc = "completed" => media_requests = ExpectedRequests

\* Every request of an item with two URLs and a pre-built request carrying
\* its own headers has been yielded, for a spider that defines overrides.
C13_Witness ==
    /\ media_pc = "completed"
    /\ "download_file_headers" \in DOMAIN spider
    /\ Len(InputUrls) = 2
    /\ InputUrls[1] # InputUrls[2]
    /\ Len(InputRequests) >= 1
    /\ InputRequests[1].method = "POST"
    /\ media_requests[3] = InputRequests[1]
    /\ media_requests[1].headers # media_requests[3].headers

-----------------------------------------------------------------------------
(* C14 *)

\* The (GroupKey, PartKey, URL) triples the page's dict holds
StoredTriples(data) ==
    UNION {UNION {{<<GroupOf(data[i].key), data[i].value[j].key, url>> :
                      url \in data[i].value[j].value} :
                  j \in 1..Len(data[i].value)} :
           i \in 1..Len(data)}

\* The GroupKeys and the (GroupKey, PartKey) pairs the page's dict holds
StoredGroups(data) == {GroupOf(data[i].key) : i \in 1..Len(data)}

StoredParts(data) ==
    UNION {{<<GroupOf(data[i].key), data[i].value[j].key>> :
               j \in 1..Len(data[i].value)} :
           i \in 1..Len(data)}

\* How many emitted records a GroupKey has
RecordCount(records, group) ==
    Cardinality({i \in 1..Len(records) : KeyOf(records[i]) = group})

\* The GroupKeys _yield_gazettes is done with: EMITTED or DROPPED
Finalized ==
    IF pc = "scan" THEN {}
    ELSE {GroupOf(current_gazettes_data_per_page[i].key) :
             i \in 1..(gidx - 1)}

\* C14: while the page is scanned no record is emitted; once _yield_gazettes
\* has started no node is scanned and no GroupKey, PartKey or URL is added to
\* the page's dict; every GroupKey has at most one record, none before
\* _yield_gazettes is done with it, and the records of a GroupKey it is done
\* with never change again (EMITTED with one record or DROPPED with none).
C14_GroupLifeCycle ==
    /\ [](pc = "scan" => emitted = <<>>)
    /\ [](\A group \in StoredGroups(current_gazettes_data_per_page) :
             /\ RecordCount(emitted, group) <= 1
             /\ group \notin Finalized => RecordCount(emitted, group) = 0)
    /\ [](\A gazette \in Range(emitted) : KeyOf(gazette) \in Finalized)
    /\ [][pc # "scan" =>
             /\ pc' # "scan"
             /\ page' = page
             /\ StoredGroups(current_gazettes_data_per_page')
                    = StoredGroups(current_gazettes_data_per_page)
             /\ StoredParts(current_gazettes_data_per_page')
                    = StoredParts(current_gazettes_data_per_page)
             /\ StoredTriples(current_gazettes_data_per_page')
                    \subseteq StoredTriples(current_gazettes_data_per_page)]_vars
    /\ [][/\ IsPrefix(emitted, emitted')
          /\ Finalized \subseteq Finalized'
          /\ \A group \in Finalized :
                RecordCount(emitted', group) = RecordCount(emitted, group)]_vars

\* A page is done with one GroupKey emitted and another dropped.
C14_Witness ==
    /\ pc = "done"
    /\ Len(current_gazettes_data_per_page) = 2
    /\ Len(emitted) = 1
    /\ Finalized = StoredGroups(current_gazettes_data_per_page)
    /\ \E group \in Finalized : RecordCount(emitted, group) = 0

-----------------------------------------------------------------------------
(* C15 *)

\* What callback p yields when its page is processed with no other
PageAlone(p) == RunPage(tasks[p].page, tasks[p].year, tasks[p].end_date)

\* The dict of callback p after its page was scanned with no other
StoreAlone(p) == DataAfter(<<>>, tasks[p].page, tasks[p].year, tasks[p].end_date)

\* C15: with the steps of several pages interleaved in any order, a step of
\* one page changes neither the progress nor the dict of another; the dict of
\* a page being scanned is the one its own entries build, and the records of a
\* finished page are exactly those the page yields when processed alone.
C15_PageIsolation ==
    /\ [](\A p \in PageIds :
             /\ tasks[p].pc = "scan" => stores[p] = StoreAlone(p)
             /\ tasks[p].pc \in {"scan", "yield_gazettes", "done"}
             /\ IsPrefix(tasks[p].emitted, PageAlone(p))
             /\ tasks[p].pc = "done" => tasks[p].emitted = PageAlone(p))
    /\ [][\A p \in PageIds :
             (tasks'[p] # tasks[p] \/ stores'[p] # stores[p]) =>
                 \A q \in PageIds \ {p} :
                     tasks'[q] = tasks[q] /\ stores'[q] = stores[q]]_vars

\* Two pages of the same year are done: both hold the entry of edition 1801
\* and both emitted it; one holds edition 1800 with one URL and the other
\* with another URL, and both emitted their own.
C15_Witness ==
    /\ tasks # <<>>
    /\ tasks[1].pc = "done"
    /\ tasks[2].pc = "done"
    /\ tasks[1].year = tasks[2].year
    /\ Len(tasks[1].emitted) = 2
    /\ Len(tasks[2].emitted) = 2
    /\ \E g1 \in Range(tasks[1].emitted), g2 \in Range(tasks[2].emitted) :
          g1 = g2 /\ g1.edition_number = "1801"
    /\ \E g1 \in Range(tasks[1].emitted), g2 \in Range(tasks[2].emitted) :
          /\ g1.edition_number = "1800"
          /\ g2.edition_number = "1800"
          /\ g1.file_urls # g2.file_urls

-----------------------------------------------------------------------------
(* C16 *)

\* The entry of the page's dict has a PartKey, and no PartKey of it has an
\* empty URL set
WellFormed(item) ==
    /\ Len(item.value) >= 1
    /\ \A j \in 1..Len(item.value) : item.value[j].value # {}

\* The positions of the page's dict _yield_gazettes has not visited yet
NotVisited ==
    IF pc = "scan" THEN 1..Len(current_gazettes_data_per_page)
    ELSE gidx..Len(current_gazettes_data_per_page)

\* C16: after any sequence of insertions, skipped and redundant ones
\* included, every GazetteKey of the page's dict has at least one
\* is_extra_edition_text key and every such key a non-empty URL set; this
\* still holds of every GazetteKey when _yield_gazettes comes to it, so
\* url_set.pop() never raises KeyError.
C16_WellFormedStore ==
    /\ \A i \in NotVisited : WellFormed(current_gazettes_data_per_page[i])
    /\ pc # "KeyError"

\* A page whose first node is the known bad entry, followed by an entry and
\* its repetition, is done and has yielded the record of the entry.
C16_Witness ==
    /\ pc = "done"
    /\ Len(page) = 3
    /\ page[1].match_ # <<>>
    /\ IsKnownBadEntry(NodeDate(page[1]), NodeUrl(page[1], year))
    /\ page[2] = page[3]
    /\ Len(emitted) = 1

-----------------------------------------------------------------------------
(* C17 *)

\* The nodes of the page whose text matches the pattern, in page order
MatchingNodes == SelectSeq(page, LAMBDA node : node.match_ # <<>>)

\* C17: the step that takes a node whose text does not match the pattern
\* leaves the loop running and changes neither the page's dict nor the
\* records; the dict of the scan, and the records of the finished page, are
\* those of the page with its non-matching nodes removed, wherever they stand.
C17_UnmatchedEntrySkipped ==
    /\ [](/\ pc = "scan" =>
                current_gazettes_data_per_page =
                    DataAfter(<<>>, MatchingNodes, year, end_date)
          /\ pc = "done" => emitted = RunPage(MatchingNodes, year, end_date))
    /\ [][(page' # page /\ page'[Len(page')].match_ = <<>>) =>
             /\ pc' = "scan"
             /\ current_gazettes_data_per_page' = current_gazettes_data_per_page
             /\ emitted' = emitted]_vars

\* A page is done whose first and third nodes do not match the pattern; the
\* node between them was registered and emitted.
C17_Witness ==
    /\ pc = "done"
    /\ Len(page) = 3
    /\ page[1].match_ = <<>>
    /\ page[3].match_ = <<>>
    /\ Registers(page[2], year, end_date)
    /\ Len(emitted) = 1

-----------------------------------------------------------------------------
(* C18 *)

\* The entry of the table: dated 2014-08-28 with a URL not ending in ".pdf"
InExceptionTable(entry) ==
    /\ entry.gazette_date = Date(2014, 8, 28)
    /\ ~EndsWith(entry.url, ".pdf")

\* The (GroupKey, PartKey, URL) triple of an entry
TripleOf(entry) ==
    <<GroupKey(entry.gazette_date, entry.edition_number, entry.is_extra_edition),
      entry.is_extra_edition_text, entry.url>>

\* The nodes of the page that do not reach _validate_uniqueness with an entry
\* of the table
WithoutExceptions ==
    SelectSeq(page, LAMBDA node :
        ~(/\ OutcomeTable[node, year, end_date] = "validate"
          /\ InExceptionTable(EntryTable[node, year])))

\* C18: a call of _validate_uniqueness with an entry dated 2014-08-28 whose
\* URL does not end with ".pdf" leaves the page's dict as it was, so that the
\* dict never holds such a URL and the records of the finished page are those
\* of the page without these entries; a call with any other entry leaves the
\* dict holding the triple of the entry, and adds nothing else.
C18_ExceptionTable ==
    /\ [](/\ \A triple \in StoredTriples(current_gazettes_data_per_page) :
                ~(triple[1][1] = Date(2014, 8, 28) /\ ~EndsWith(triple[3], ".pdf"))
          /\ pc = "done" => emitted = RunPage(WithoutExceptions, year, end_date))
    /\ [][(/\ page' # page
           /\ OutcomeTable[page'[Len(page')], year, end_date] = "validate") =>
             LET entry == EntryTable[page'[Len(page')], year]
             IN  IF InExceptionTable(entry)
                 THEN current_gazettes_data_per_page'
                          = current_gazettes_data_per_page
                 ELSE StoredTriples(current_gazettes_data_per_page') =
                          StoredTriples(current_gazettes_data_per_page)
                              \cup {TripleOf(entry)}]_vars

\* A page is done that holds the entry of 2014-08-28 with the URL that does
\* not end with ".pdf" before the entry of the same date and edition with the
\* URL that does: one record, with that one URL.
C18_Witness ==
    /\ pc = "done"
    /\ Len(page) = 2
    /\ OutcomeTable[page[1], year, end_date] = "validate"
    /\ InExceptionTable(EntryTable[page[1], year])
    /\ OutcomeTable[page[2], year, end_date] = "validate"
    /\ EntryTable[page[2], year].gazette_date = Date(2014, 8, 28)
    /\ EndsWith(EntryTable[page[2], year].url, ".pdf")
    /\ Len(emitted) = 1
    /\ emitted[1].file_urls = <<EntryTable[page[2], year].url>>

-----------------------------------------------------------------------------
(* C19 *)

\* C19: two calls of file_path for the same request and item, one without a
\* response and one with the response, return the same path.
C19_PathStableAcrossFetch ==
    \A c1, c2 \in calls :
        /\ c1.request = c2.request
        /\ c1.item = c2.item
        /\ ~c1.response.present
        /\ c2.response.present
        => c1.path = c2.path

-----------------------------------------------------------------------------
(* C20 *)

\* The date as the number YYYYMMDD
DateNumber(d) == d.year * 10000 + d.month * 100 + d.day

\* 2013-06-03 <= d <= end_date, both bounds included
WithinBounds(d) ==
    /\ 20130603 <= DateNumber(d)
    /\ DateNumber(d) <= DateNumber(end_date)

\* The node carries a valid date outside the bounds
OutsideBounds(node) ==
    /\ node.match_ # <<>>
    /\ ValidDate(StrToInt(node.match_[3]), StrToInt(node.match_[4]),
                 StrToInt(node.match_[5]))
    /\ ~WithinBounds(Date(StrToInt(node.match_[3]), StrToInt(node.match_[4]),
                          StrToInt(node.match_[5])))

\* The nodes of the page dated within the bounds, or carrying no valid date
NodesWithinBounds == SelectSeq(page, LAMBDA node : ~OutsideBounds(node))

\* C20: every emitted record is dated within [start_date, end_date], bounds
\* included; the step that takes a node dated outside the bounds changes
\* neither the page's dict nor the records, and the dict of the scan and the
\* records of the finished page are those of the page without such nodes.
C20_CrawlBounds ==
    /\ [](/\ \A gazette \in Range(emitted) : WithinBounds(gazette.date)
          /\ \A triple \in StoredTriples(current_gazettes_data_per_page) :
                WithinBounds(triple[1][1])
          /\ pc = "scan" =>
                current_gazettes_data_per_page =
                    DataAfter(<<>>, NodesWithinBounds, year, end_date)
          /\ pc = "done" => emitted = RunPage(NodesWithinBounds, year, end_date))
    /\ [][(page' # page /\ OutsideBounds(page'[Len(page')])) =>
             /\ pc' = "scan"
             /\ current_gazettes_data_per_page' = current_gazettes_data_per_page
             /\ emitted' = emitted]_vars

\* A page is done whose second node is dated after end_date, between two
\* nodes dated on end_date itself; a record dated on end_date was emitted.
C20_Witness ==
    /\ pc = "done"
    /\ Len(page) = 3
    /\ \A n \in 1..3 : page[n].match_ # <<>>
    /\ NodeDate(page[1]) = end_date
    /\ OutsideBounds(page[2])
    /\ NodeDate(page[2]).year = year
    /\ NodeDate(page[3]) = end_date
    /\ \E gazette \in Range(emitted) : gazette.date = end_date

====
